---------------------------- MODULE Spec2Model ----------------------------
(***************************************************************************)
(* A model of scripts/check_power.py: one run of the power-monitor script  *)
(* (load config, resolve URL, fetch and extract, render, write, exit) and  *)
(* the pure helpers it is built from.                                      *)
(*                                                                         *)
(* Python values are tagged records: None, str, int, float, dict.  A str   *)
(* is a sequence of one-character strings, so that strip, rstrip, prefix   *)
(* tests and concatenation are computed character by character.            *)
(***************************************************************************)
EXTENDS Integers, Sequences, FiniteSets, TLC

VARIABLES
    pc,        \* position of the run (or of the helper call under test)
    args,      \* argparse.Namespace: url, config, format, output
    environ,   \* os.environ: a function from variable names to strings
    cfgfile,   \* what the file system holds at the config path
    config,    \* the mapping load_config returned
    url,       \* the URL resolve_url returned
    net,       \* how the network answers the single GET
    report,    \* the PowerReport of the run
    output,    \* the rendered text
    effects,   \* the run's I/O in order: fetch, stdout/file write, stderr line
    exc,       \* the exception in flight out of main, if any
    exitcode,  \* the process's exit status
    arg,       \* the arguments of a helper called on its own
    ret        \* the value that helper returned

vars == <<pc, args, environ, cfgfile, config, url, net, report, output,
          effects, exc, exitcode, arg, ret>>

---------------------------------------------------------------------------
(* Python values *)

NoneV == [t |-> "none"]
Str(s) == [t |-> "str", s |-> s]
IntV(n) == [t |-> "int", n |-> n]
Bool(b) == [t |-> "bool", b |-> b]
List(l) == [t |-> "list", l |-> l]
Dict(d) == [t |-> "dict", d |-> d]
\* a float that is num / 10^scale
Float(num, scale) == [t |-> "float", num |-> num, scale |-> scale]

EmptyDict == Dict(<<>>)

IsStr(v) == v.t = "str"
IsDict(v) == v.t = "dict"

\* bool(v), as `if v:`, `a or b` and `not v` evaluate it
Truthy(v) ==
    CASE v.t = "none" -> FALSE
      [] v.t = "str" -> v.s # <<>>
      [] v.t = "int" -> v.n # 0
      [] v.t = "bool" -> v.b
      [] v.t = "list" -> v.l # <<>>
      [] v.t = "dict" -> DOMAIN v.d # {}
      [] v.t = "float" -> v.num # 0
      [] OTHER -> TRUE

\* a or b
Or(a, b) == IF Truthy(a) THEN a ELSE b

---------------------------------------------------------------------------
(* str methods *)

Whitespace == {" ", "\t", "\n"}

RECURSIVE lstrip(_)
lstrip(s) ==
    IF s # <<>> /\ Head(s) \in Whitespace THEN lstrip(Tail(s)) ELSE s

RECURSIVE rstrip(_)
rstrip(s) ==
    IF s # <<>> /\ s[Len(s)] \in Whitespace
    THEN rstrip(SubSeq(s, 1, Len(s) - 1))
    ELSE s

\* s.strip()
strip(s) == rstrip(lstrip(s))

\* s.rstrip(c) for a single character c
RECURSIVE rstrip_char(_, _)
rstrip_char(s, c) ==
    IF s # <<>> /\ s[Len(s)] = c
    THEN rstrip_char(SubSeq(s, 1, Len(s) - 1), c)
    ELSE s

\* c in s
Contains(s, c) == \E i \in DOMAIN s : s[i] = c

\* s.startswith(p)
startswith(s, p) == Len(p) <= Len(s) /\ SubSeq(s, 1, Len(p)) = p

\* s.replace(a, b) for single characters; b = "" deletes
RECURSIVE replace_char(_, _, _)
replace_char(s, a, b) ==
    IF s = <<>> THEN <<>>
    ELSE (IF Head(s) = a THEN (IF b = "" THEN <<>> ELSE <<b>>) ELSE <<Head(s)>>)
         \o replace_char(Tail(s), a, b)

\* "".join(s.split()): every whitespace character removed
RECURSIVE remove_whitespace(_)
remove_whitespace(s) ==
    IF s = <<>> THEN <<>>
    ELSE (IF Head(s) \in Whitespace THEN <<>> ELSE <<Head(s)>>)
         \o remove_whitespace(Tail(s))

\* all strings over an alphabet up to a length
Strings(alphabet, n) == UNION {[1..k -> alphabet] : k \in 0..n}

---------------------------------------------------------------------------
(* module constants *)

DEFAULT_BASE_URL == <<"h","t","t","p","s",":","/","/","w","w","w",".","w","a","p",".","e","k","m","3","6","5",".","c","o","m","/","n","a","t","/","p","a","y",".","a","s","p","x">>
DEFAULT_MID == <<"2","0","7","1","0","0","0","1","7","5","9">>
DEFAULT_URL == DEFAULT_BASE_URL \o <<"?","m","i","d","=">> \o DEFAULT_MID
SNIPPET_LIMIT == 2000

POWER_MONITOR_URL == <<"P","O","W","E","R","_","M","O","N","I","T","O","R","_","U","R","L">>
POWER_MONITOR_MID == <<"P","O","W","E","R","_","M","O","N","I","T","O","R","_","M","I","D">>
POWER_MONITOR_BASE_URL == <<"P","O","W","E","R","_","M","O","N","I","T","O","R","_","B","A","S","E","_","U","R","L">>

\* the characters of [A-Z0-9_]
NameChars ==
    {"A","B","C","D","E","F","G","H","I","J","K","L","M","N","O","P","Q","R",
     "S","T","U","V","W","X","Y","Z","0","1","2","3","4","5","6","7","8","9","_"}

\* PLACEHOLDER_PATTERN.match(s): ^\$\{([A-Z0-9_]+)\}$, where $ also matches
\* just before one trailing newline.  The empty sequence stands for no match,
\* otherwise the result is group(1).
PLACEHOLDER_PATTERN_match(s) ==
    LET body == IF s # <<>> /\ s[Len(s)] = "\n"
                THEN SubSeq(s, 1, Len(s) - 1) ELSE s
    IN IF /\ Len(body) >= 4
          /\ body[1] = "$"
          /\ body[2] = "{"
          /\ body[Len(body)] = "}"
          /\ \A i \in 3..(Len(body) - 1) : body[i] \in NameChars
       THEN SubSeq(body, 3, Len(body) - 1)
       ELSE <<>>

---------------------------------------------------------------------------
(* configuration helpers *)

\* d.get(key)
dict_get(v, key) == IF key \in DOMAIN v.d THEN v.d[key] ELSE NoneV

RECURSIVE lookup(_, _)
lookup(current, keys) ==
    IF keys = <<>> THEN current
    ELSE IF ~IsDict(current) THEN NoneV
    ELSE lookup(dict_get(current, Head(keys)), Tail(keys))

\* os.getenv(name)
getenv(env, name) == IF name \in DOMAIN env THEN Str(env[name]) ELSE NoneV

url_from_mid_nostrip(mid, base_url) ==
    LET base == Or(base_url, Str(DEFAULT_BASE_URL)).s
        separator == IF Contains(base, "?") THEN "&" ELSE "?"
    IN base \o <<separator>> \o <<"m","i","d","=">> \o mid

url_from_mid(mid, base_url) ==
    LET base == rstrip_char(Or(base_url, Str(DEFAULT_BASE_URL)).s, "?")
        separator == IF Contains(base, "?") THEN "&" ELSE "?"
    IN base \o <<separator>> \o <<"m","i","d","=">> \o mid

env_string(env, name) ==
    LET value == getenv(env, name)
    IN IF value = NoneV THEN NoneV
       ELSE Or(Str(strip(value.s)), NoneV)

resolve_string_fallback(env, value) ==
    IF ~IsStr(value) THEN NoneV
    ELSE LET stripped == strip(value.s)
             name == PLACEHOLDER_PATTERN_match(stripped)
         IN IF stripped = <<>> THEN NoneV
            ELSE IF name # <<>> THEN Or(env_string(env, name), Str(stripped))
            ELSE Str(stripped)

resolve_string(env, value) ==
    IF ~IsStr(value) THEN NoneV
    ELSE LET stripped == strip(value.s)
             name == PLACEHOLDER_PATTERN_match(stripped)
         IN IF stripped = <<>> THEN NoneV
            ELSE IF name # <<>> THEN env_string(env, name)
            ELSE Str(stripped)

config_string(env, cfg, keys) == resolve_string(env, lookup(cfg, keys))

RECURSIVE first_non_none(_)
first_non_none(values) ==
    IF values = <<>> THEN NoneV
    ELSE IF Truthy(Head(values)) THEN Head(values)
    ELSE first_non_none(Tail(values))

resolve_url_config_before_env(cli_url, cfg, env) ==
    LET env_url == env_string(env, POWER_MONITOR_URL)
        config_url == first_non_none(<<config_string(env, cfg, <<"url">>),
                                       config_string(env, cfg, <<"meter", "url">>)>>)
        mid == Or(env_string(env, POWER_MONITOR_MID),
                  first_non_none(<<config_string(env, cfg, <<"mid">>),
                                   config_string(env, cfg, <<"meter", "mid">>)>>))
        base == Or(env_string(env, POWER_MONITOR_BASE_URL),
                   first_non_none(<<config_string(env, cfg, <<"base_url">>),
                                    config_string(env, cfg, <<"meter", "base_url">>)>>))
    IN IF Truthy(cli_url) THEN cli_url.s
       ELSE IF Truthy(config_url) THEN config_url.s
       ELSE IF Truthy(env_url) THEN env_url.s
       ELSE IF Truthy(mid) THEN url_from_mid(mid.s, base)
       ELSE DEFAULT_URL

resolve_url_config_mid_first(cli_url, cfg, env) ==
    LET env_url == env_string(env, POWER_MONITOR_URL)
        config_url == first_non_none(<<config_string(env, cfg, <<"url">>),
                                       config_string(env, cfg, <<"meter", "url">>)>>)
        mid == Or(first_non_none(<<config_string(env, cfg, <<"mid">>),
                                   config_string(env, cfg, <<"meter", "mid">>)>>),
                  env_string(env, POWER_MONITOR_MID))
        base == Or(env_string(env, POWER_MONITOR_BASE_URL),
                   first_non_none(<<config_string(env, cfg, <<"base_url">>),
                                    config_string(env, cfg, <<"meter", "base_url">>)>>))
    IN IF Truthy(cli_url) THEN cli_url.s
       ELSE IF Truthy(env_url) THEN env_url.s
       ELSE IF Truthy(config_url) THEN config_url.s
       ELSE IF Truthy(mid) THEN url_from_mid(mid.s, base)
       ELSE DEFAULT_URL

resolve_url_base_with_default_mid(cli_url, cfg, env) ==
    LET env_url == env_string(env, POWER_MONITOR_URL)
        config_url == first_non_none(<<config_string(env, cfg, <<"url">>),
                                       config_string(env, cfg, <<"meter", "url">>)>>)
        mid == Or(env_string(env, POWER_MONITOR_MID),
                  first_non_none(<<config_string(env, cfg, <<"mid">>),
                                   config_string(env, cfg, <<"meter", "mid">>)>>))
        base == Or(env_string(env, POWER_MONITOR_BASE_URL),
                   first_non_none(<<config_string(env, cfg, <<"base_url">>),
                                    config_string(env, cfg, <<"meter", "base_url">>)>>))
    IN IF Truthy(cli_url) THEN cli_url.s
       ELSE IF Truthy(env_url) THEN env_url.s
       ELSE IF Truthy(config_url) THEN config_url.s
       ELSE url_from_mid(Or(mid, Str(DEFAULT_MID)).s, base)

resolve_url(cli_url, cfg, env) ==
    LET env_url == env_string(env, POWER_MONITOR_URL)
        config_url == first_non_none(<<config_string(env, cfg, <<"url">>),
                                       config_string(env, cfg, <<"meter", "url">>)>>)
        mid == Or(env_string(env, POWER_MONITOR_MID),
                  first_non_none(<<config_string(env, cfg, <<"mid">>),
                                   config_string(env, cfg, <<"meter", "mid">>)>>))
        base == Or(env_string(env, POWER_MONITOR_BASE_URL),
                   first_non_none(<<config_string(env, cfg, <<"base_url">>),
                                    config_string(env, cfg, <<"meter", "base_url">>)>>))
    IN IF Truthy(cli_url) THEN cli_url.s
       ELSE IF Truthy(env_url) THEN env_url.s
       ELSE IF Truthy(config_url) THEN config_url.s
       ELSE IF Truthy(mid) THEN url_from_mid(mid.s, base)
       ELSE DEFAULT_URL

---------------------------------------------------------------------------
(* field extraction *)

(* The page's text is in Chinese.  Each Chinese character is written as one  *)
(* character token named by its pinyin: biao ming cheng = the meter-name     *)
(* label, biao hao = meter id, sheng yu dian liang = remaining kWh, sheng yu *)
(* jin e = remaining amount, zong he fei yong = price; "fwcolon" is the      *)
(* fullwidth colon U+FF1A.                                                   *)
LABEL_METER_NAME == <<"biao","ming","cheng">>
LABEL_METER_ID == <<"biao","hao">>
LABEL_REMAINING_KWH == <<"sheng","yu","dian","liang">>
LABEL_REMAINING_AMOUNT == <<"sheng","yu","jin","e">>
LABEL_PRICE == <<"zong","he","fei","yong">>
MISSING_FIELD_ERROR ==
    <<"ye","mian","zhong","que","shao","lquote","sheng","yu","dian","liang",
      "rquote","zi","duan">>
POWER_MONITOR_CONFIG == <<"P","O","W","E","R","_","M","O","N","I","T","O","R","_","C","O","N","F","I","G">>
DEFAULT_CONFIG_PATH == <<"c","o","n","f","i","g",".","y","a","m","l">>
CONFIG_WRONG == <<"c","o","n","f","i","g",".","y","a","m","l"," ","w","r","o","n","g">>
POWER_MONITOR_FAILED == <<"P","o","w","e","r"," ","m","o","n","i","t","o","r"," ","f","a","i","l","e","d">>
ERROR_PREFIX == <<"E","r","r","o","r",":"," ">>
UNKNOWN == <<"wei","zhi">>

normalize_label(text) ==
    replace_char(remove_whitespace(replace_char(text, "fwcolon", ":")), ":", "")

Digits == {"0","1","2","3","4","5","6","7","8","9"}

DigitValue(c) ==
    CASE c = "0" -> 0 [] c = "1" -> 1 [] c = "2" -> 2 [] c = "3" -> 3
      [] c = "4" -> 4 [] c = "5" -> 5 [] c = "6" -> 6 [] c = "7" -> 7
      [] c = "8" -> 8 [] c = "9" -> 9

RECURSIVE DecimalValue(_)
DecimalValue(ds) ==
    IF ds = <<>> THEN 0
    ELSE 10 * DecimalValue(SubSeq(ds, 1, Len(ds) - 1)) + DigitValue(ds[Len(ds)])

\* num / 10^scale with the trailing zeros of the fraction dropped
RECURSIVE Normalized(_, _)
Normalized(num, scale) ==
    IF scale > 0 /\ num % 10 = 0 THEN Normalized(num \div 10, scale - 1)
    ELSE Float(num, scale)

\* float(s) for s over digits, ".", a leading sign and surrounding whitespace;
\* NoneV stands for ValueError.  Every other character makes the text
\* invalid, which is Python's answer for the characters the pages of this
\* model use (no exponent, "inf", "nan" or "_").
float_of(s) ==
    LET t == strip(s)
        unsigned == IF t # <<>> /\ t[1] \in {"+", "-"} THEN Tail(t) ELSE t
        negative == t # <<>> /\ t[1] = "-"
        dots == {i \in DOMAIN unsigned : unsigned[i] = "."}
        digits == replace_char(unsigned, ".", "")
        scale == IF dots = {} THEN 0
                 ELSE Len(unsigned) - (CHOOSE i \in dots : TRUE)
    IN IF /\ \A i \in DOMAIN unsigned : unsigned[i] \in Digits \cup {"."}
          /\ Cardinality(dots) <= 1
          /\ digits # <<>>
       THEN Normalized((IF negative THEN -1 ELSE 1) * DecimalValue(digits), scale)
       ELSE NoneV

parse_numeric(value) ==
    IF value = NoneV THEN NoneV
    ELSE float_of(replace_char(value.s, ",", ""))

(* The parsed page (the HTML parser is a black box): its elements in       *)
(* document order, each with its tag and its text.                         *)
Element(tag, text) == [tag |-> tag, text |-> text]

\* el.get_text(strip=True)
get_text(el) == strip(el.text)

\* span.find_next("label"): the first label element after position i, 0 if none
find_next_label(soup, i) ==
    LET later == {j \in DOMAIN soup : j > i /\ soup[j].tag = "label"}
    IN IF later = {} THEN 0 ELSE CHOOSE j \in later : \A k \in later : j <= k

RECURSIVE find_value_from(_, _, _)
find_value_from(soup, target, i) ==
    IF i > Len(soup) THEN NoneV
    ELSE IF /\ soup[i].tag = "span"
            /\ get_text(soup[i]) # <<>>
            /\ startswith(normalize_label(get_text(soup[i])), target)
            /\ find_next_label(soup, i) # 0
         THEN Str(get_text(soup[find_next_label(soup, i)]))
         ELSE find_value_from(soup, target, i + 1)

RECURSIVE find_value_exact_from(_, _, _)
find_value_exact_from(soup, target, i) ==
    IF i > Len(soup) THEN NoneV
    ELSE IF /\ soup[i].tag = "span"
            /\ get_text(soup[i]) # <<>>
            /\ normalize_label(get_text(soup[i])) = target
            /\ find_next_label(soup, i) # 0
         THEN Str(get_text(soup[find_next_label(soup, i)]))
         ELSE find_value_exact_from(soup, target, i + 1)

find_value_exact(soup, keyword) ==
    find_value_exact_from(soup, normalize_label(keyword), 1)

find_value(soup, keyword) == find_value_from(soup, normalize_label(keyword), 1)

\* s.split(): the maximal runs of non-whitespace characters
RECURSIVE split(_)
split(s) ==
    LET t == lstrip(s)
        ends == {i \in DOMAIN t : t[i] \in Whitespace}
        n == IF ends = {} THEN Len(t) + 1
             ELSE CHOOSE i \in ends : \A j \in ends : i <= j
    IN IF t = <<>> THEN <<>>
       ELSE <<SubSeq(t, 1, n - 1)>> \o split(SubSeq(t, n, Len(t)))

\* " ".join(words)
RECURSIVE join(_)
join(words) ==
    IF words = <<>> THEN <<>>
    ELSE IF Len(words) = 1 THEN words[1]
    ELSE words[1] \o <<" ">> \o join(Tail(words))

\* textwrap.shorten(text, width, placeholder="..."): whitespace collapsed; if
\* too long, the longest run of whole leading words that leaves room for the
\* placeholder, then the placeholder
shorten(text, width) ==
    LET words == split(text)
        fits == {k \in 1..Len(words) : Len(join(SubSeq(words, 1, k))) + 3 <= width}
        k == IF fits = {} THEN 0 ELSE CHOOSE i \in fits : \A j \in fits : j <= i
    IN IF Len(join(words)) <= width THEN join(words)
       ELSE join(SubSeq(words, 1, k)) \o <<".", ".", ".">>

\* soup.stripped_strings: the non-empty stripped texts in document order
RECURSIVE stripped_strings(_)
stripped_strings(soup) ==
    IF soup = <<>> THEN <<>>
    ELSE (IF strip(Head(soup).text) = <<>> THEN <<>> ELSE <<strip(Head(soup).text)>>)
         \o stripped_strings(Tail(soup))

PowerInfo(meter_name, meter_id, remaining_kwh, remaining_amount_cny, price_per_kwh) ==
    [meter_name |-> meter_name, meter_id |-> meter_id,
     remaining_kwh |-> remaining_kwh,
     remaining_amount_cny |-> remaining_amount_cny,
     price_per_kwh |-> price_per_kwh]

EmptyPowerInfo == PowerInfo(NoneV, NoneV, NoneV, NoneV, NoneV)

extract_power_info(soup) ==
    [info |-> PowerInfo(find_value(soup, LABEL_METER_NAME),
                        find_value(soup, LABEL_METER_ID),
                        parse_numeric(find_value(soup, LABEL_REMAINING_KWH)),
                        parse_numeric(find_value(soup, LABEL_REMAINING_AMOUNT)),
                        parse_numeric(find_value(soup, LABEL_PRICE))),
     snippet |-> shorten(join(stripped_strings(soup)), SNIPPET_LIMIT)]

---------------------------------------------------------------------------
(* report building and rendering *)

PowerReport(u, tz, info, snippet, success, error) ==
    [url |-> u, fetched_at |-> [tz |-> tz], info |-> info, snippet |-> snippet,
     success |-> success, error |-> error]

collect_report_error_always(u, soup) ==
    LET x == extract_power_info(soup)
    IN PowerReport(u, "+08:00", x.info, x.snippet,
                   x.info.remaining_kwh # NoneV, Str(MISSING_FIELD_ERROR))

\* collect_report once fetch_page has returned the page
collect_report(u, soup) ==
    LET x == extract_power_info(soup)
        success == x.info.remaining_kwh # NoneV
        error == IF success THEN NoneV ELSE Str(MISSING_FIELD_ERROR)
    IN PowerReport(u, "+08:00", x.info, x.snippet, success, error)

failure_report_keeps_success(u, message) ==
    PowerReport(u, "UTC", EmptyPowerInfo, <<>>, TRUE, Str(message))

\* the report main's exception handler builds from str(exc)
failure_report(u, message) ==
    PowerReport(u, "UTC", EmptyPowerInfo, <<>>, FALSE, Str(message))

\* f"{value:.2f}" is kept as the number and its two places, not as digits
format_value(value) ==
    IF value = NoneV THEN Str(UNKNOWN) ELSE [t |-> "fixed2", of |-> value]

render_markdown(r) ==
    [format |-> "markdown",
     lines |-> <<[line |-> "heading"],
                 [line |-> "time", tz |-> r.fetched_at.tz],
                 [line |-> "remaining_kwh", text |-> format_value(r.info.remaining_kwh)],
                 [line |-> "remaining_amount", text |-> format_value(r.info.remaining_amount_cny)]>>
               \o (IF Truthy(r.error) THEN <<[line |-> "error", text |-> r.error]>> ELSE <<>>)
               \o <<[line |-> "blank"]>>]

render_json(r) ==
    [format |-> "json",
     payload |-> [url |-> r.url, fetched_at |-> r.fetched_at, success |-> r.success,
                  error |-> r.error, info |-> r.info, snippet |-> r.snippet]]

\* the I/O write_output performs
write_output(text, destination) ==
    IF ~Truthy(destination) THEN [kind |-> "stdout", text |-> text]
    ELSE [kind |-> "file", path |-> destination.s, text |-> text]

---------------------------------------------------------------------------
(* the run: main and the __main__ block *)

PowerMonitorError(message) == [type |-> "PowerMonitorError", message |-> message]

load_config(path, env, files) ==
    LET candidate == Or(Or(path, getenv(env, POWER_MONITOR_CONFIG)),
                        Str(DEFAULT_CONFIG_PATH)).s
        data == Or(files[candidate], EmptyDict)
    IN IF candidate \notin DOMAIN files
       THEN [raised |-> FALSE, value |-> EmptyDict]
       ELSE IF ~IsDict(data)
       THEN [raised |-> TRUE, exc |-> PowerMonitorError(CONFIG_WRONG)]
       ELSE [raised |-> FALSE, value |-> data]

\* main, line 281
LoadConfig ==
    /\ pc = "start"
    /\ LET r == load_config(args.config, environ, cfgfile)
       IN IF r.raised
          THEN /\ exc' = r.exc
               /\ pc' = "raised"
               /\ UNCHANGED config
          ELSE /\ config' = r.value
               /\ pc' = "loaded"
               /\ UNCHANGED exc
    /\ UNCHANGED <<args, environ, cfgfile, url, net, report, output, effects,
                   exitcode, arg, ret>>

\* main, line 282
ResolveUrl ==
    /\ pc = "loaded"
    /\ url' = resolve_url(args.url, config, environ)
    /\ pc' = "resolved"
    /\ UNCHANGED <<args, environ, cfgfile, config, net, report, output, effects,
                   exc, exitcode, arg, ret>>

\* main, lines 284-294: collect_report, or the handler of whatever it raised
CollectReport ==
    /\ pc = "resolved"
    /\ effects' = Append(effects, [kind |-> "fetch", url |-> url])
    /\ \/ /\ net.kind = "page"
          /\ report' = collect_report(url, net.soup)
       \/ /\ net.kind \in {"fetch_error", "parse_error"}
          /\ report' = failure_report(url, net.message)
    /\ pc' = "collected"
    /\ UNCHANGED <<args, environ, cfgfile, config, url, net, output, exc,
                   exitcode, arg, ret>>

\* main, lines 296-299
Render ==
    /\ pc = "collected"
    /\ output' = IF args.format = "json" THEN render_json(report)
                 ELSE render_markdown(report)
    /\ pc' = "rendered"
    /\ UNCHANGED <<args, environ, cfgfile, config, url, net, report, effects,
                   exc, exitcode, arg, ret>>

\* main, line 301
WriteOutput ==
    /\ pc = "rendered"
    /\ effects' = Append(effects, write_output(output, args.output))
    /\ pc' = "written"
    /\ UNCHANGED <<args, environ, cfgfile, config, url, net, report, output,
                   exc, exitcode, arg, ret>>

CheckSuccess_ignores_failure ==
    /\ pc = "written"
    /\ pc' = "returned"
    /\ UNCHANGED <<args, environ, cfgfile, config, url, net, report, output,
                   effects, exc, exitcode, arg, ret>>

\* main, lines 303-304
CheckSuccess ==
    /\ pc = "written"
    /\ IF ~report.success
       THEN /\ exc' = PowerMonitorError(Or(report.error, Str(POWER_MONITOR_FAILED)).s)
            /\ pc' = "raised"
       ELSE /\ pc' = "returned"
            /\ UNCHANGED exc
    /\ UNCHANGED <<args, environ, cfgfile, config, url, net, report, output,
                   effects, exitcode, arg, ret>>

\* the __main__ block, lines 307-312: the error line, then the re-raise ends
\* the process with status 1; a main that returned ends it with status 0
Exit ==
    /\ \/ /\ pc = "raised"
          /\ exc.type = "PowerMonitorError"
          /\ effects' = Append(effects, [kind |-> "stderr",
                                         text |-> ERROR_PREFIX \o exc.message])
          /\ exitcode' = IntV(1)
       \/ /\ pc = "returned"
          /\ exitcode' = IntV(0)
          /\ UNCHANGED effects
    /\ pc' = "exited"
    /\ UNCHANGED <<args, environ, cfgfile, config, url, net, report, output,
                   exc, arg, ret>>

---------------------------------------------------------------------------
(* the inputs of a run *)

\* an environment variable that is set, or nothing for NoneV
Bind(name, v) == IF v = NoneV THEN <<>> ELSE (name :> v.s)

NoArgs == [url |-> NoneV, config |-> NoneV, format |-> "markdown", output |-> NoneV]

MaxElements == 2

Pages(elements) == UNION {[1..k -> elements] : k \in 0..MaxElements}

RunArgs ==
    [url : {NoneV, Str(<<"u">>)}, config : {NoneV, Str(<<"c">>)},
     format : {"markdown", "json"}, output : {NoneV, Str(<<"o">>)}]

RunEnvirons ==
    {Bind(POWER_MONITOR_CONFIG, c) : c \in {NoneV, Str(<<"e">>)}}

\* what yaml.safe_load may read: an empty file, mappings, and other documents
YamlDocuments ==
    {NoneV, EmptyDict, Dict("mid" :> Str(<<"5">>)), Dict("url" :> Str(<<"k">>)),
     List(<<>>), List(<<IntV(1)>>), IntV(0), Str(<<"x">>), Bool(FALSE)}

RunFiles ==
    {<<>>} \cup {(p :> d) : p \in {<<"c">>, <<"e">>, DEFAULT_CONFIG_PATH},
                            d \in YamlDocuments}

RunElements ==
    {Element("span", LABEL_REMAINING_KWH \o <<"fwcolon">>),
     Element("span", LABEL_REMAINING_AMOUNT),
     Element("label", <<"1", ",", "2", ".", "5">>),
     Element("label", <<"x">>)}

RunAnswers ==
    {[kind |-> "page", soup |-> p] : p \in Pages(RunElements)}
    \cup {[kind |-> "fetch_error", message |-> m] : m \in {<<>>, <<"4", "0", "4">>}}
    \cup {[kind |-> "parse_error", message |-> <<"p">>]}

Init ==
    /\ pc = "start"
    /\ args \in RunArgs
    /\ environ \in RunEnvirons
    /\ cfgfile \in RunFiles
    /\ net \in RunAnswers
    /\ config = NoneV
    /\ url = <<>>
    /\ report = NoneV
    /\ output = NoneV
    /\ effects = <<>>
    /\ exc = NoneV
    /\ exitcode = NoneV
    /\ arg = NoneV
    /\ ret = NoneV

Next ==
    \/ LoadConfig
    \/ ResolveUrl
    \/ CollectReport
    \/ Render
    \/ WriteOutput
    \/ CheckSuccess
    \/ Exit

Spec == Init /\ [][Next]_vars

---------------------------------------------------------------------------
(* resolve_url on its own: main from the loaded config to the resolved URL *)

METER_ID == <<"M","E","T","E","R","_","I","D">>

\* "${NAME}"
Placeholder(name) == <<"$", "{">> \o name \o <<"}">>

\* a mapping with the given entries; NoneV for a key leaves the key out
Entry(key, v) == IF v = NoneV THEN <<>> ELSE (key :> v)

UrlCli == {NoneV, Str(<<>>), Str(<<"u">>)}

UrlEnvirons ==
    {Bind(POWER_MONITOR_URL, u) @@ Bind(POWER_MONITOR_MID, m)
       @@ Bind(POWER_MONITOR_BASE_URL, b) @@ Bind(METER_ID, i) :
        u \in {NoneV, Str(<<" ">>), Str(<<" ", "e", " ">>)},
        m \in {NoneV, Str(<<>>), Str(<<"7">>)},
        b \in {NoneV, Str(<<"b", "?">>)},
        i \in {NoneV, Str(<<"9", "9", "9">>)}}

UrlMeters ==
    {NoneV, Str(<<"x">>),
     Dict("url" :> Str(<<"n">>)),
     Dict("mid" :> Str(<<"q">>)),
     Dict("base_url" :> Str(<<"r", "?", "a">>)),
     Dict("mid" :> Str(<<"q">>) @@ "base_url" :> Str(<<"r", "?", "a">>))}

UrlConfigs ==
    {Dict(Entry("url", u) @@ Entry("mid", m) @@ Entry("base_url", b)
            @@ Entry("meter", meter)) :
        u \in {NoneV, Str(<<" ", "k">>), Str(Placeholder(<<"N", "O">>)),
               Str(Placeholder(POWER_MONITOR_MID))},
        m \in {NoneV, Str(Placeholder(METER_ID)), IntV(5), Str(<<"m">>)},
        b \in {NoneV, Str(<<"h", "?">>)},
        meter \in UrlMeters}

NoRun ==
    /\ cfgfile = <<>>
    /\ net = NoneV
    /\ report = NoneV
    /\ output = NoneV
    /\ effects = <<>>
    /\ exc = NoneV
    /\ exitcode = NoneV

InitUrl ==
    /\ pc = "loaded"
    /\ args \in {[NoArgs EXCEPT !.url = u] : u \in UrlCli}
    /\ environ \in UrlEnvirons
    /\ config \in UrlConfigs
    /\ url = <<>>
    /\ arg = NoneV
    /\ ret = NoneV
    /\ NoRun

NextUrl == ResolveUrl

SpecUrl == InitUrl /\ [][NextUrl]_vars

---------------------------------------------------------------------------
(* url_from_mid on its own *)

MaxBaseLen == 4

ExampleBase == <<"h","t","t","p","s",":","/","/","h","/","p","?","a","=","1">>

MidBases ==
    {NoneV, Str(ExampleBase)} \cup {Str(b) : b \in Strings({"h", "?", "&"}, MaxBaseLen)}

MidIds == {<<"X">>, DEFAULT_MID, <<"9", "?">>}

CallUrlFromMid ==
    /\ pc = "call_url_from_mid"
    /\ ret' = Str(url_from_mid(arg.mid, arg.base_url))
    /\ pc' = "done"
    /\ UNCHANGED <<args, environ, cfgfile, config, url, net, report, output,
                   effects, exc, exitcode, arg>>

InitMid ==
    /\ pc = "call_url_from_mid"
    /\ arg \in [mid : MidIds, base_url : MidBases]
    /\ ret = NoneV
    /\ args = NoArgs
    /\ environ = <<>>
    /\ config = NoneV
    /\ url = <<>>
    /\ NoRun

NextMid == CallUrlFromMid

SpecMid == InitMid /\ [][NextMid]_vars

---------------------------------------------------------------------------
(* resolve_string on its own *)

MaxLen == 5

StringAlphabet == {" ", "$", "{", "}", "A", "a"}

StringValues ==
    {NoneV, IntV(5), EmptyDict} \cup {Str(v) : v \in Strings(StringAlphabet, MaxLen)}

StringEnvirons ==
    {Bind(<<"A">>, a) @@ (<<"A", "A">> :> <<"w">>) :
        a \in {NoneV, Str(<<>>), Str(<<" ", "v", " ">>), Str(Placeholder(<<"A">>))}}

CallResolveString ==
    /\ pc = "call_resolve_string"
    /\ ret' = resolve_string(environ, arg)
    /\ pc' = "done"
    /\ UNCHANGED <<args, environ, cfgfile, config, url, net, report, output,
                   effects, exc, exitcode, arg>>

InitString ==
    /\ pc = "call_resolve_string"
    /\ arg \in StringValues
    /\ environ \in StringEnvirons
    /\ ret = NoneV
    /\ args = NoArgs
    /\ config = NoneV
    /\ url = <<>>
    /\ NoRun

NextString == CallResolveString

SpecString == InitString /\ [][NextString]_vars

---------------------------------------------------------------------------
(* find_value on its own *)

MaxPageLen == 3

FindSpanTexts ==
    {<<>>,
     <<"biao", "hao">>,
     <<"biao", " ", "hao", "fwcolon">>,
     <<":", "biao", "hao", "ma">>,
     <<"biao">>,
     <<"hao", "biao">>,
     <<"biao", "ming", "cheng">>,
     <<" ", "biao", " ", "ming", "cheng", "fwcolon", " ">>,
     <<"fwcolon">>}

FindElements ==
    {Element("span", t) : t \in FindSpanTexts}
    \cup {Element("label", t) : t \in {<<>>, <<"1">>, <<" ", "2">>}}
    \cup {Element("div", <<"biao", "hao">>)}

FindPages == UNION {[1..k -> FindElements] : k \in 0..MaxPageLen}

\* the labels extract_power_info looks for
FindKeywords ==
    {LABEL_METER_NAME, LABEL_METER_ID, LABEL_REMAINING_KWH,
     LABEL_REMAINING_AMOUNT, LABEL_PRICE}

CallFindValue ==
    /\ pc = "call_find_value"
    /\ ret' = find_value(arg.soup, arg.keyword)
    /\ pc' = "done"
    /\ UNCHANGED <<args, environ, cfgfile, config, url, net, report, output,
                   effects, exc, exitcode, arg>>

InitFind ==
    /\ pc = "call_find_value"
    /\ arg \in [soup : FindPages, keyword : FindKeywords]
    /\ ret = NoneV
    /\ args = NoArgs
    /\ environ = <<>>
    /\ config = NoneV
    /\ url = <<>>
    /\ NoRun

NextFind == CallFindValue

SpecFind == InitFind /\ [][NextFind]_vars

---------------------------------------------------------------------------
(* properties *)

\* s without its leading and trailing whitespace, by position
Trim(s) ==
    LET solid == {i \in DOMAIN s : s[i] \notin Whitespace}
    IN IF solid = {} THEN <<>>
       ELSE SubSeq(s, CHOOSE i \in solid : \A j \in solid : i <= j,
                      CHOOSE i \in solid : \A j \in solid : j <= i)

\* t is ${NAME} with NAME one or more of A-Z, 0-9, _
IsPlaceholderText(t) ==
    /\ Len(t) >= 4
    /\ SubSeq(t, 1, 2) = <<"$", "{">>
    /\ t[Len(t)] = "}"
    /\ \A i \in 3..(Len(t) - 1) : t[i] \in NameChars

PlaceholderName(t) == SubSeq(t, 3, Len(t) - 1)

\* v is a present value: a non-empty string
Present(v) == v # NoneV /\ v.t = "str" /\ v.s # <<>>

DefaultUrlText == <<"h","t","t","p","s",":","/","/","w","w","w",".","w","a","p",".","e","k","m","3","6","5",".","c","o","m","/","n","a","t","/","p","a","y",".","a","s","p","x","?","m","i","d","=","2","0","7","1","0","0","0","1","7","5","9">>
ExampleUrl == <<"h","t","t","p","s",":","/","/","h","/","p","?","a","=","1","&","m","i","d","=","X">>
Url999 == <<"h","t","t","p","s",":","/","/","w","w","w",".","w","a","p",".","e","k","m","3","6","5",".","c","o","m","/","n","a","t","/","p","a","y",".","a","s","p","x","?","m","i","d","=","9","9","9">>

\* C6: url_from_mid(mid, base_url) takes the default base when base_url is
\* absent, drops the base's trailing "?"s, and appends "&mid=<mid>" if what is
\* left still holds a "?" and "?mid=<mid>" otherwise; the two worked examples
\* come out character for character.
C6_UrlFromMid ==
    pc = "done" =>
        LET given == IF Present(arg.base_url) THEN arg.base_url.s ELSE DEFAULT_BASE_URL
            marks == {k \in 0..Len(given) :
                         /\ \A i \in (Len(given) - k + 1)..Len(given) : given[i] = "?"
                         /\ (k < Len(given) => given[Len(given) - k] # "?")}
            stem == SubSeq(given, 1, Len(given) - (CHOOSE k \in marks : TRUE))
            query == <<"m", "i", "d", "=">> \o arg.mid
        IN /\ Cardinality(marks) = 1
           /\ (\E i \in DOMAIN stem : stem[i] = "?") => ret = Str(stem \o <<"&">> \o query)
           /\ (\A i \in DOMAIN stem : stem[i] # "?") => ret = Str(stem \o <<"?">> \o query)
           /\ (arg.mid = DEFAULT_MID /\ arg.base_url = NoneV) => ret = Str(DefaultUrlText)
           /\ (arg.mid = <<"X">> /\ arg.base_url = Str(ExampleBase)) => ret = Str(ExampleUrl)

\* a base with a query string and trailing "?"s has been composed
C6_Witness ==
    /\ pc = "done"
    /\ arg.base_url = Str(<<"h", "?", "h", "?">>)
    /\ arg.mid = <<"X">>
    /\ ret = Str(<<"h", "?", "h", "&", "m", "i", "d", "=", "X">>)

\* C7: resolve_string gives absent for a non-string and for a string that is
\* empty once trimmed; for a trimmed ${NAME} it gives the trimmed value of the
\* environment variable NAME, or absent when that is unset or empty once
\* trimmed, never the placeholder text; any other string it gives trimmed.
C7_ResolveString ==
    pc = "done" =>
        LET t == IF IsStr(arg) THEN Trim(arg.s) ELSE <<>>
            name == PlaceholderName(t)
        IN IF ~IsStr(arg) \/ t = <<>> THEN ret = NoneV
           ELSE IF IsPlaceholderText(t)
           THEN IF name \in DOMAIN environ /\ Trim(environ[name]) # <<>>
                THEN ret = Str(Trim(environ[name]))
                ELSE ret = NoneV
           ELSE ret = Str(t)

\* a padded placeholder of an unset variable has resolved to absent
C7_Witness ==
    /\ pc = "done"
    /\ arg = Str(<<" ", "$", "{", "A", "}">>)
    /\ <<"A">> \notin DOMAIN environ
    /\ ret = NoneV

\* the first present value of a sequence, absent if there is none
FirstPresent(values) ==
    LET ok == {i \in DOMAIN values : Present(values[i])}
    IN IF ok = {} THEN NoneV
       ELSE values[CHOOSE i \in ok : \A j \in ok : i <= j]

\* the trimmed value of an environment variable, absent if unset or blank
EnvValue(name) ==
    IF name \in DOMAIN environ /\ Trim(environ[name]) # <<>>
    THEN Str(Trim(environ[name]))
    ELSE NoneV

\* a config value resolved through placeholder indirection
Resolved(v) ==
    IF ~IsStr(v) \/ Trim(v.s) = <<>> THEN NoneV
    ELSE IF IsPlaceholderText(Trim(v.s)) THEN EnvValue(PlaceholderName(Trim(v.s)))
    ELSE Str(Trim(v.s))

\* config key `key`, and nested config key `meter.key`
TopValue(key) ==
    Resolved(IF key \in DOMAIN config.d THEN config.d[key] ELSE NoneV)

MeterValue(key) ==
    Resolved(IF /\ "meter" \in DOMAIN config.d
                /\ IsDict(config.d["meter"])
                /\ key \in DOMAIN config.d["meter"].d
             THEN config.d["meter"].d[key]
             ELSE NoneV)

TierCli == args.url
TierEnv == EnvValue(POWER_MONITOR_URL)
TierConfig == FirstPresent(<<TopValue("url"), MeterValue("url")>>)
MeterId ==
    FirstPresent(<<EnvValue(POWER_MONITOR_MID), TopValue("mid"), MeterValue("mid")>>)
BaseUrl ==
    FirstPresent(<<EnvValue(POWER_MONITOR_BASE_URL), TopValue("base_url"),
                   MeterValue("base_url"), Str(DEFAULT_BASE_URL)>>)
TierMid == IF Present(MeterId) THEN Str(url_from_mid(MeterId.s, BaseUrl)) ELSE NoneV
TierDefault == Str(DEFAULT_URL)

NoUrlGiven == ~Present(TierCli) /\ ~Present(TierEnv) /\ ~Present(TierConfig)

\* C2: resolve_url returns the value of the first tier that yields one, in
\* the order CLI URL, POWER_MONITOR_URL, config url else meter.url, the URL
\* composed from a meter id, the default URL; so a tier that yields a value
\* decides the result whatever the tiers below it hold.
C2_Precedence ==
    pc = "resolved" =>
        url = FirstPresent(<<TierCli, TierEnv, TierConfig, TierMid, TierDefault>>).s

\* the environment URL has won over a config URL and a meter id
C2_Witness ==
    /\ pc = "resolved"
    /\ ~Present(TierCli)
    /\ Present(TierEnv)
    /\ Present(TierConfig)
    /\ Present(MeterId)
    /\ url = <<"e">>

\* C8: with no CLI URL, no POWER_MONITOR_URL and no config url/meter.url, the
\* meter id is the first present of POWER_MONITOR_MID, config mid, config
\* meter.mid, the base the first present of POWER_MONITOR_BASE_URL, config
\* base_url, config meter.base_url, the default base, config values being
\* resolved through placeholders; with a meter id the result is
\* url_from_mid(meter id, base).  Config {mid: "${METER_ID}"} with
\* METER_ID=999 gives the default base with mid 999.
C8_MeterIdTier ==
    (pc = "resolved" /\ NoUrlGiven) =>
        /\ Present(MeterId) => url = url_from_mid(MeterId.s, BaseUrl)
        /\ ( /\ config = Dict("mid" :> Str(Placeholder(METER_ID)))
             /\ environ = (METER_ID :> <<"9", "9", "9">>) ) => url = Url999

\* the spec's example: mid through ${METER_ID}, nothing else given
C8_Witness ==
    /\ pc = "resolved"
    /\ args.url = NoneV
    /\ config = Dict("mid" :> Str(Placeholder(METER_ID)))
    /\ environ = (METER_ID :> <<"9", "9", "9">>)
    /\ url = Url999

\* C10: with no URL and no meter id given, the result is the default URL
\* whatever POWER_MONITOR_BASE_URL, config base_url and config meter.base_url
\* hold: a configured base is never joined to the default meter id.
C10_BaseAloneIgnored ==
    (pc = "resolved" /\ NoUrlGiven /\ ~Present(MeterId)) => url = DefaultUrlText

\* bases given in the environment and in the config, no meter id
C10_Witness ==
    /\ pc = "resolved"
    /\ NoUrlGiven
    /\ ~Present(MeterId)
    /\ Present(EnvValue(POWER_MONITOR_BASE_URL))
    /\ Present(TopValue("base_url"))
    /\ Present(MeterValue("base_url"))
    /\ url = DEFAULT_URL

NotBlankOrColon(c) == c \notin Whitespace \cup {":", "fwcolon"}

\* a label's bare token: no whitespace, no colon of either width
Norm(text) == SelectSeq(text, NotBlankOrColon)

IsPrefix(p, t) == Len(p) <= Len(t) /\ \A i \in DOMAIN p : t[i] = p[i]

\* the least element of a non-empty set of positions
Least(S) == CHOOSE i \in S : \A j \in S : i <= j

\* C9: find_value matches a span iff its normalized text starts with the
\* normalized label, normalizing by turning the fullwidth colon into a colon,
\* dropping whitespace, then dropping colons; the result is the text of the
\* nearest label element after the first matching span in document order, and
\* absent when no span matches (or no label follows).
C9_FindValue ==
    pc = "done" =>
        LET soup == arg.soup
            matches == {i \in DOMAIN soup :
                           /\ soup[i].tag = "span"
                           /\ IsPrefix(Norm(arg.keyword), Norm(soup[i].text))}
            values == {j \in DOMAIN soup : soup[j].tag = "label" /\ j > Least(matches)}
        IN /\ \A i \in DOMAIN soup : normalize_label(soup[i].text) = Norm(soup[i].text)
           /\ normalize_label(<<"biao", " ", "ming", "cheng", "fwcolon">>)
                  = normalize_label(LABEL_METER_NAME)
           /\ IF matches = {} THEN ret = NoneV
              ELSE IF values = {} THEN ret = NoneV
              ELSE ret = Str(Trim(soup[Least(values)].text))

\* two spans match (the first by prefix, behind a colon); the value is the
\* label after the first, past an element that is no label
C9_Witness ==
    /\ pc = "done"
    /\ arg.keyword = LABEL_METER_ID
    /\ arg.soup = <<Element("span", <<":", "biao", "hao", "ma">>),
                    Element("span", <<"biao", "hao">>),
                    Element("label", <<" ", "2">>)>>
    /\ ret = Str(<<"2">>)

Writes == {i \in DOMAIN effects : effects[i].kind \in {"stdout", "file"}}
ErrorLines == {i \in DOMAIN effects : effects[i].kind = "stderr"}
Fetches == {i \in DOMAIN effects : effects[i].kind = "fetch"}

\* effect i wrote the rendered report to the sink the arguments chose
WroteReport(i) ==
    /\ output # NoneV
    /\ effects[i].text = output
    /\ output.format = args.format
    /\ IF args.output = NoneV THEN effects[i].kind = "stdout"
       ELSE effects[i].kind = "file" /\ effects[i].path = args.output.s

\* C1: every report a run builds has success true iff info.remaining_kwh is
\* present and error set iff success is false; a failed report's error is the
\* missing-field message, or the caught exception's text (the empty string
\* included).
C1_ReportInvariant ==
    report # NoneV =>
        /\ report.success <=> report.info.remaining_kwh # NoneV
        /\ report.error # NoneV <=> ~report.success
        /\ ~report.success =>
               report.error = IF net.kind = "page" THEN Str(MISSING_FIELD_ERROR)
                              ELSE Str(net.message)

\* the handler has built a report from an exception whose message is empty
C1_Witness ==
    /\ report # NoneV
    /\ net.kind = "fetch_error"
    /\ net.message = <<>>
    /\ report.error = Str(<<>>)
    /\ ~report.success

\* C3: a run whose report failed writes the report to the chosen sink first,
\* prints the error line only after that and exits non-zero; a run whose
\* report succeeded prints no error line and exits zero.
C3_ReportThenFailure ==
    report # NoneV =>
        /\ \A j \in ErrorLines : \E i \in Writes : i < j /\ WroteReport(i)
        /\ report.success => ErrorLines = {}
        /\ pc = "exited" =>
               IF report.success
               THEN exitcode = IntV(0)
               ELSE /\ exitcode.n # 0
                    /\ Cardinality(ErrorLines) = 1
                    /\ Cardinality(Writes) = 1

\* a failed report was written to the --output file, then the error line
\* printed, then the process left with status 1
C3_Witness ==
    /\ pc = "exited"
    /\ report # NoneV
    /\ ~report.success
    /\ args.output # NoneV
    /\ Len(effects) = 3
    /\ effects[2].kind = "file"
    /\ effects[3].kind = "stderr"
    /\ exitcode = IntV(1)

\* the path load_config reads
ConfigPath ==
    IF Present(args.config) THEN args.config.s
    ELSE IF POWER_MONITOR_CONFIG \in DOMAIN environ /\ environ[POWER_MONITOR_CONFIG] # <<>>
    THEN environ[POWER_MONITOR_CONFIG]
    ELSE DEFAULT_CONFIG_PATH

\* C4: a config file that is present and whose top-level content is not a
\* mapping is fatal: no fetch, no report rendered or written, non-zero exit;
\* an absent config file gives the empty mapping and the run goes on.  (The
\* empty document is left out: the formula asks only about documents that
\* have a top-level content.)
C4_NonMappingIsFatal ==
    pc # "start" =>
        /\ (ConfigPath \in DOMAIN cfgfile /\ cfgfile[ConfigPath].t \notin {"dict", "none"}) =>
               /\ pc \in {"raised", "exited"}
               /\ Fetches = {}
               /\ Writes = {}
               /\ report = NoneV
               /\ output = NoneV
               /\ pc = "exited" => exitcode.n # 0
        /\ ConfigPath \notin DOMAIN cfgfile => (pc # "raised" /\ config = EmptyDict)

\* C5: when the fetch or the extraction raises, the driver builds a report
\* with the resolved URL, an empty PowerInfo, an empty snippet, success false
\* and the exception's message as error; nothing propagates before that
\* report is rendered and written, and the run then ends non-zero.
C5_ExceptionBecomesReport ==
    (net.kind \in {"fetch_error", "parse_error"} /\ config # NoneV) =>
        /\ pc \notin {"start", "loaded", "resolved"} =>
               /\ report # NoneV
               /\ report.url = url
               /\ report.info = EmptyPowerInfo
               /\ report.snippet = <<>>
               /\ report.success = FALSE
               /\ report.error = Str(net.message)
        /\ pc \in {"written", "raised", "exited"} =>
               \E i \in Writes :
                   /\ WroteReport(i)
                   /\ args.format = "json" => effects[i].text.payload.error = Str(net.message)
        /\ pc = "exited" => exitcode.n # 0

\* an extraction failure has ended as a written report and exit status 1
C5_Witness ==
    /\ pc = "exited"
    /\ net.kind = "parse_error"
    /\ report # NoneV
    /\ report.error = Str(<<"p">>)
    /\ Writes # {}
    /\ exitcode = IntV(1)

=============================================================================
